---- MODULE Spec2Model ----
(***************************************************************************)
(* gRPC tracing interceptors of package trace (src/grpc.go):               *)
(*   grpcUnaryInterceptor, grpcStreamClientInterceptor,                    *)
(*   ClientStreamWrapper, GRPCServerInterceptor,                           *)
(*   GRPCStreamServerInterceptor, ServerStreamWrapper.                     *)
(* Span, Client.SpanFromHeader, spanHeader and FromContext/NewContext live *)
(* in other files of the package; they are modelled from the design text.  *)
(***************************************************************************)
EXTENDS Integers, Sequences, FiniteSets, TLC

\* ------------------------------------------------------------- bounds
\* concurrent client calls sharing one caller-supplied metadata bag
NumCalls == 2
\* operations a caller (or handler) starts on one stream wrapper
MaxOps == 4

\* ---------------------------------------------------------- constants
Nil == "nil"
\* const grpcMetadataKey = "x-cloud-trace-context"
grpcMetadataKey == "x-cloud-trace-context"
OtherKey == "authorization"
Keys == {grpcMetadataKey, OtherKey}

Calls == 1 .. NumCalls
Threads == {"send", "recv"}
\* the non-nil errors the wrapped transport may return
CallErrors == {"unavailable"}
RecvErrors == {"EOF", "unavailable"}

\* ------------------------------------------------- strings as char sequences
DigitChars == <<"0", "1", "2", "3", "4", "5", "6", "7", "8", "9">>

IsDigit(ch) == \E i \in 1 .. 10 : DigitChars[i] = ch

DigitVal(ch) == (CHOOSE i \in 1 .. 10 : DigitChars[i] = ch) - 1

\* fmt's %d of a non-negative integer
RECURSIVE FormatUint(_)
FormatUint(n) ==
    IF n < 10 THEN <<DigitChars[n + 1]>>
    ELSE FormatUint(n \div 10) \o <<DigitChars[(n % 10) + 1]>>

\* strconv.ParseUint(s, 10, 64): the value, or -1 when s is not a decimal number
RECURSIVE ParseUintAcc(_, _)
ParseUintAcc(s, acc) ==
    IF s = <<>> THEN acc
    ELSE IF ~IsDigit(Head(s)) THEN -1
    ELSE ParseUintAcc(Tail(s), acc * 10 + DigitVal(Head(s)))

ParseUint(s) == IF s = <<>> THEN -1 ELSE ParseUintAcc(s, 0)

\* strings.Index(s, ch): the 1-based place of the first ch in s, 0 when absent
IndexOf(s, ch) ==
    IF \E i \in 1 .. Len(s) : s[i] = ch
    THEN CHOOSE i \in 1 .. Len(s) : s[i] = ch /\ \A j \in 1 .. i - 1 : s[j] # ch
    ELSE 0

\* strings.Join(values, "")
RECURSIVE JoinStrings(_)
JoinStrings(values) ==
    IF values = <<>> THEN <<>> ELSE Head(values) \o JoinStrings(Tail(values))

\* ------------------------------------------------------- header codec
\* spanHeader(traceID, spanID, options): "<traceID>/<spanID>;o=<options>"
spanHeader(traceID, spanID, options) ==
    traceID \o <<"/">> \o FormatUint(spanID) \o <<";", "o", "=">> \o FormatUint(options)

NoTraceInfo == [ok |-> FALSE, traceID |-> <<>>, spanID |-> 0, options |-> 0]

\* decode of the header: best effort, a malformed header gives ok = FALSE and
\* zero identifiers, a missing options field gives options 0
traceInfoFromHeader(h) ==
    LET slash == IndexOf(h, "/") IN
    IF h = <<>> \/ slash = 0 THEN NoTraceInfo
    ELSE
        LET traceID == SubSeq(h, 1, slash - 1)
            rest    == SubSeq(h, slash + 1, Len(h))
            semi    == IndexOf(rest, ";")
            spanstr == IF semi = 0 THEN rest ELSE SubSeq(rest, 1, semi - 1)
            optstr  == IF semi = 0 THEN <<>> ELSE SubSeq(rest, semi + 1, Len(rest))
            spanID  == ParseUint(spanstr)
            hasOpt  == Len(optstr) >= 2 /\ optstr[1] = "o" /\ optstr[2] = "="
            opt     == IF hasOpt THEN ParseUint(SubSeq(optstr, 3, Len(optstr))) ELSE 0
        IN  IF spanID < 0 \/ opt < 0 THEN NoTraceInfo
            ELSE [ok |-> TRUE, traceID |-> traceID, spanID |-> spanID, options |-> opt]

\* ------------------------------------------------------------- spans
\* A span: its identifiers, its labels, and what its finish has done so far.
\* finishCalls counts the invocations of Finish, reports the times the span
\* was reported.
MakeSpan(traceID, spanID, parentSpanID, options) ==
    [isNil |-> FALSE, traceID |-> traceID, spanID |-> spanID, parentSpanID |-> parentSpanID,
     options |-> options, labels |-> {}, finished |-> FALSE,
     finishCalls |-> 0, reports |-> 0]

\* the nil *Span
NilSpan ==
    [isNil |-> TRUE, traceID |-> <<>>, spanID |-> 0, parentSpanID |-> 0,
     options |-> 0, labels |-> {}, finished |-> FALSE,
     finishCalls |-> 0, reports |-> 0]

\* the identifiers a client may find in its calling context
AmbientSpans ==
    { MakeSpan(<<"a", "b">>, 7, 0, 1), MakeSpan(<<"c">>, 42, 7, 0) }

\* the span ids NewChild may draw
NewSpanIDs == {130}

\* Span.NewChild(name): nil for a nil receiver; else a span of the same trace
\* with a new span id and the receiver as parent
NewChild(parent, id) ==
    IF parent.isNil THEN NilSpan
    ELSE MakeSpan(parent.traceID, id, parent.spanID, parent.options)

\* Span.Finish, the call being made: nil-safe
FinishEnter(s) ==
    IF s.isNil THEN s ELSE [s EXCEPT !.finishCalls = @ + 1]

\* Span.Finish, its effect: idempotent, the span is reported once
FinishEffect(s) ==
    IF s.isNil THEN s
    ELSE [s EXCEPT !.finished = TRUE,
                   !.reports = IF s.finished THEN @ ELSE @ + 1]

\* Span.Finish, called and run to completion by one sequential caller
Finish(s) == FinishEffect(FinishEnter(s))

\* Span.SetLabel(key, value): nil-safe
SetLabel(s, key, value) ==
    IF s.isNil THEN s ELSE [s EXCEPT !.labels = @ \cup {<<key, value>>}]

\* Client.SpanFromHeader(name, header): never nil; an undecodable header gives
\* a span of a fresh trace with parent 0
FreshTraceID == <<"f">>
ServerSpanID == 9

SpanFromHeader(header) ==
    LET info == traceInfoFromHeader(header) IN
    IF info.ok THEN MakeSpan(info.traceID, ServerSpanID, info.spanID, info.options)
    ELSE MakeSpan(FreshTraceID, ServerSpanID, 0, 0)

\* ------------------------------------------------------ metadata bags
\* A bag (metadata.MD, a Go map) is a function from some keys to value lists.
EmptyMD == [k \in {} |-> <<>>]

\* metadata.Pairs(key, value)
Pairs(key, value) == [k \in {key} |-> <<value>>]

\* MD.Copy(): a new map with the same keys and copies of the value lists
CopyMD(md) == [k \in DOMAIN md |-> md[k]]

\* md[key] = values
SetKey(md, key, values) ==
    [k \in (DOMAIN md) \cup {key} |-> IF k = key THEN values ELSE md[k]]

StaleHeader == <<"z", "/", "1">>

\* the bags a caller may have put in the outgoing context
CallerBags ==
    { Pairs(OtherKey, <<"t">>),
      Pairs(grpcMetadataKey, StaleHeader),
      SetKey(Pairs(OtherKey, <<"t">>), grpcMetadataKey, <<StaleHeader, StaleHeader>>) }

\* heap addresses of bags: 0 is the caller's bag, c the bag call c allocates
BaseAddr == 0
Addrs == 0 .. NumCalls

NoAddr == -1

VARIABLES
    heap,      \* Addrs -> the contents of the bag allocated there
    origMd,    \* contents of the caller's bag when the calls began
    call,      \* Calls -> the client interceptor's locals and position
    cspan,     \* Calls -> the child span of the call (NilSpan: none)
    cw,        \* Calls -> the ClientStreamWrapper the call returned, and its use
    srv,       \* the server interceptor's locals and position
    sspan,     \* the span the server interceptor reconstructed (NilSpan: none)
    sw         \* the stream given to the stream handler (made: it is a
               \* ServerStreamWrapper), and its use

clientVars == <<heap, origMd, call, cspan, cw>>

serverVars == <<srv, sspan, sw>>

vars == <<heap, origMd, call, cspan, cw, srv, sspan, sw>>

\* what an invoker or streamer finds in the outgoing context
NoSent == [has |-> FALSE, md |-> EmptyMD]

SentOf(addr) ==
    IF addr = NoAddr THEN NoSent ELSE [has |-> TRUE, md |-> heap[addr]]

InitCall(ambient, ctxMd) ==
    [pc |-> "idle", kind |-> "none", ambient |-> ambient,
     md |-> NoAddr, ok |-> FALSE, ctxMd |-> ctxMd,
     sent |-> NoSent, invoked |-> 0, err |-> Nil, ret |-> "none", stream |-> "none"]

\* a ClientStreamWrapper not yet made. Per thread: where it stands (tpc), the
\* method it runs (op) and the underlying stream's result (err). changed records
\* that some method returned something else than the underlying stream's result,
\* afterFinish that a message was passed to the underlying stream with the span
\* already finished, eof that RecvMsg reported the end of the peer's messages,
\* halfClosed that the underlying CloseSend was called, context the server
\* wrapper's context field, ctxSeen the contexts Context() has returned.
NoWrapper ==
    [made |-> FALSE, tpc |-> [t \in Threads |-> "idle"],
     op |-> [t \in Threads |-> "none"], err |-> [t \in Threads |-> Nil],
     ops |-> 0, triggers |-> 0, changed |-> FALSE,
     over |-> FALSE, discarded |-> FALSE,
     afterFinish |-> FALSE, eof |-> FALSE, halfClosed |-> FALSE,
     context |-> "none", ctxSeen |-> {}]

\* the header of the design's example, "abc/42;o=1"
ExampleHeader == <<"a", "b", "c", "/", "4", "2", ";", "o", "=", "1">>

\* the metadata an incoming call may carry: no trace header; a well-formed one;
\* one split over two values; an empty value list; an undecodable value
IncomingBags ==
    { EmptyMD,
      Pairs(OtherKey, <<"t">>),
      Pairs(grpcMetadataKey, ExampleHeader),
      SetKey(Pairs(OtherKey, <<"t">>), grpcMetadataKey,
             <<SubSeq(ExampleHeader, 1, 5), SubSeq(ExampleHeader, 6, 10)>>),
      SetKey(EmptyMD, grpcMetadataKey, <<>>),
      Pairs(grpcMetadataKey, <<"x", ";", "/">>) }

InitSrv(md) ==
    [pc |-> "idle", kind |-> "none", md |-> md, traced |-> FALSE,
     handlerCalls |-> 0, handlerSpan |-> NilSpan, handlerWrapped |-> FALSE,
     err |-> Nil, ret |-> "none"]

\* The calls of Calls are about to be made, each from its own calling context
\* (with or without an ambient span), all with the same outgoing metadata.
InitShared ==
    /\ \E base \in CallerBags, hasMd \in BOOLEAN :
          /\ heap = [a \in Addrs |-> IF a = BaseAddr /\ hasMd THEN base ELSE EmptyMD]
          /\ origMd = IF hasMd THEN base ELSE EmptyMD
          /\ \E amb \in [Calls -> AmbientSpans \cup {NilSpan}] :
                call = [c \in Calls |->
                          InitCall(amb[c], IF hasMd THEN BaseAddr ELSE NoAddr)]
    /\ cspan = [c \in Calls |-> NilSpan]
    /\ cw = [c \in Calls |-> NoWrapper]
    /\ srv = [InitSrv(EmptyMD) EXCEPT !.pc = "off"]
    /\ sspan = NilSpan
    /\ sw = NoWrapper

\* the call whose stream wrapper is followed through its life
FirstCall == CHOOSE c \in Calls : \A d \in Calls : c <= d

InitClient ==
    /\ InitShared
    /\ \A c \in Calls \ {FirstCall} : call[c].ambient = NilSpan

\* ------------------------------------------ client interceptors, shared part
\* with no ambient span the interceptor starts a span of a new trace
ClientNewChild_Root(c, kind, id) ==
    /\ call[c].pc = "idle"
    /\ cspan' = [cspan EXCEPT ![c] =
                   IF call[c].ambient.isNil THEN MakeSpan(FreshTraceID, id, 0, 0)
                   ELSE NewChild(call[c].ambient, id)]
    /\ call' = [call EXCEPT ![c].kind = kind, ![c].pc = "copy"]
    /\ UNCHANGED <<heap, origMd, cw, serverVars>>

\* span := FromContext(ctx).NewChild(method)          (grpc.go 41, 136)
ClientNewChild(c, kind, id) ==
    /\ call[c].pc = "idle"
    /\ LET span == NewChild(call[c].ambient, id) IN
       /\ cspan' = [cspan EXCEPT ![c] = span]
       /\ call' = [call EXCEPT ![c].kind = kind,
                               ![c].pc = IF ~span.isNil THEN "copy" ELSE "call"]
    /\ UNCHANGED <<heap, origMd, cw, serverVars>>

\* the header carries the child span's own id
ClientHeader_OwnID(span) == spanHeader(span.traceID, span.spanID, span.options)

\* header := spanHeader(span.trace.traceID, span.span.ParentSpanId,
\*                      span.trace.globalOptions)     (grpc.go 45, 139)
ClientHeader(span) == spanHeader(span.traceID, span.parentSpanID, span.options)

\* md is the caller's own bag when there is one: no md.Copy()
ClientCopyMD_Alias(c) ==
    /\ call[c].pc = "copy"
    /\ LET ok == call[c].ctxMd # NoAddr IN
       /\ heap' = [heap EXCEPT ![c] =
                     IF ok THEN @ ELSE Pairs(grpcMetadataKey, ClientHeader(cspan[c]))]
       /\ call' = [call EXCEPT ![c].md = IF ok THEN call[c].ctxMd ELSE c,
                               ![c].ok = ok, ![c].pc = "set"]
    /\ UNCHANGED <<origMd, cspan, cw, serverVars>>

\* md, ok := metadata.FromOutgoingContext(ctx); then metadata.Pairs(key, header)
\* or md.Copy(): either way md is a bag of the call's own   (grpc.go 46-50)
ClientCopyMD(c) ==
    /\ call[c].pc = "copy"
    /\ LET ok == call[c].ctxMd # NoAddr IN
       /\ heap' = [heap EXCEPT ![c] =
                     IF ok THEN CopyMD(heap[call[c].ctxMd])
                     ELSE Pairs(grpcMetadataKey, ClientHeader(cspan[c]))]
       /\ call' = [call EXCEPT ![c].md = c, ![c].ok = ok, ![c].pc = "set"]
    /\ UNCHANGED <<origMd, cspan, cw, serverVars>>

\* md[grpcMetadataKey] = []string{header} on the copy, then
\* ctx = metadata.NewOutgoingContext(ctx, md)           (grpc.go 51-53)
ClientSetMD(c) ==
    /\ call[c].pc = "set"
    /\ heap' = IF call[c].ok
               THEN [heap EXCEPT ![call[c].md] =
                       SetKey(@, grpcMetadataKey, <<ClientHeader(cspan[c])>>)]
               ELSE heap
    /\ call' = [call EXCEPT ![c].ctxMd = call[c].md, ![c].pc = "call"]
    /\ UNCHANGED <<origMd, cspan, cw, serverVars>>

\* ------------------------------------------------ grpcUnaryInterceptor
\* the invoker's error is returned but not recorded on the span
UnaryInvoke_NoLabel(c, err) ==
    /\ call[c].pc = "call"
    /\ call[c].kind = "unary"
    /\ call' = [call EXCEPT ![c].sent = SentOf(call[c].ctxMd),
                            ![c].invoked = @ + 1,
                            ![c].err = err,
                            ![c].pc = "defer"]
    /\ UNCHANGED <<heap, origMd, cspan, cw, serverVars>>

\* err := invoker(ctx, ...); if err != nil { span.SetLabel("error", err.Error()) }
UnaryInvoke(c, err) ==
    /\ call[c].pc = "call"
    /\ call[c].kind = "unary"
    /\ call' = [call EXCEPT ![c].sent = SentOf(call[c].ctxMd),
                            ![c].invoked = @ + 1,
                            ![c].err = err,
                            ![c].pc = "defer"]
    /\ cspan' = [cspan EXCEPT ![c] = IF err # Nil THEN SetLabel(@, "error", err) ELSE @]
    /\ UNCHANGED <<heap, origMd, cw, serverVars>>

\* the interceptor returns without finishing the span
UnaryDeferFinish_Skip(c) ==
    /\ call[c].pc = "defer"
    /\ call' = [call EXCEPT ![c].pc = "ret"]
    /\ UNCHANGED <<heap, origMd, cspan, cw, serverVars>>

\* defer span.Finish(), run when the function returns
UnaryDeferFinish(c) ==
    /\ call[c].pc = "defer"
    /\ cspan' = [cspan EXCEPT ![c] = Finish(@)]
    /\ call' = [call EXCEPT ![c].pc = "ret"]
    /\ UNCHANGED <<heap, origMd, cw, serverVars>>

\* return err
UnaryReturn(c) ==
    /\ call[c].pc = "ret"
    /\ call[c].kind = "unary"
    /\ call' = [call EXCEPT ![c].ret = call[c].err, ![c].pc = "done"]
    /\ UNCHANGED <<heap, origMd, cspan, cw, serverVars>>

\* ------------------------------------------ grpcStreamClientInterceptor
\* cs, err := streamer(ctx, desc, cc, method, opts...)
StreamEstablish(c, err) ==
    /\ call[c].pc = "call"
    /\ call[c].kind = "stream"
    /\ call' = [call EXCEPT ![c].sent = SentOf(call[c].ctxMd),
                            ![c].invoked = @ + 1,
                            ![c].err = err,
                            ![c].pc = IF err # Nil THEN "failed" ELSE "wrap"]
    /\ UNCHANGED <<heap, origMd, cspan, cw, serverVars>>

\* the failure path returns without finishing the span
StreamFailFinish_Skip(c) ==
    /\ call[c].pc = "failed"
    /\ call' = [call EXCEPT ![c].pc = "ret"]
    /\ UNCHANGED <<heap, origMd, cspan, cw, serverVars>>

\* if err != nil { span.Finish() ...
StreamFailFinish(c) ==
    /\ call[c].pc = "failed"
    /\ cspan' = [cspan EXCEPT ![c] = Finish(@)]
    /\ call' = [call EXCEPT ![c].pc = "ret"]
    /\ UNCHANGED <<heap, origMd, cw, serverVars>>

\* ... return nil, err }
StreamFailReturn(c) ==
    /\ call[c].pc = "ret"
    /\ call[c].kind = "stream"
    /\ call' = [call EXCEPT ![c].ret = call[c].err, ![c].stream = "nil", ![c].pc = "done"]
    /\ UNCHANGED <<heap, origMd, cspan, cw, serverVars>>

\* return &ClientStreamWrapper{stream: cs, span: span}, nil
StreamReturnWrapper(c) ==
    /\ call[c].pc = "wrap"
    /\ call' = [call EXCEPT ![c].ret = Nil, ![c].stream = "wrapper", ![c].pc = "done"]
    /\ cw' = [cw EXCEPT ![c].made = TRUE]
    /\ UNCHANGED <<heap, origMd, cspan, serverVars>>

\* ------------------------------------------------- ClientStreamWrapper
\* the caller may start an operation on thread t of the wrapper of call c
CanStart(c, t) ==
    /\ cw[c].made
    /\ ~cw[c].discarded
    /\ cw[c].tpc[t] = "idle"
    /\ cw[c].ops < MaxOps

\* a method of the wrapper returns ret, the underlying stream having returned err
Returned(w, t, ret) ==
    [w EXCEPT !.tpc[t] = "idle", !.op[t] = "none", !.err[t] = Nil,
              !.changed = @ \/ ret # w.err[t]]

\* SendMsg / RecvMsg: err := s.stream.XxxMsg(m);
\* if err != nil && s.span != nil { s.span.Finish() -- being called }
\* else return err                                   (grpc.go 113-127)
ClientMsgCall(c, t, name, err) ==
    /\ CanStart(c, t)
    /\ LET finish == err # Nil /\ ~cspan[c].isNil
           w == [cw[c] EXCEPT !.ops = @ + 1,
                              !.op[t] = name,
                              !.err[t] = err,
                              !.triggers = IF err # Nil THEN @ + 1 ELSE @,
                              !.over = @ \/ err # Nil,
                              !.afterFinish = @ \/ cspan[c].finished,
                              !.eof = @ \/ err = "EOF",
                              !.tpc[t] = "inFinish"]
       IN
       /\ cw' = [cw EXCEPT ![c] = IF finish THEN w ELSE Returned(w, t, err)]
       /\ cspan' = [cspan EXCEPT ![c] = IF finish THEN FinishEnter(@) ELSE @]
    /\ UNCHANGED <<heap, origMd, call, serverVars>>

\* SendMsg forwards and returns, never finishing the span
ClientSendMsg_NoFinish(c, err) ==
    /\ CanStart(c, "send")
    /\ cw' = [cw EXCEPT ![c] =
                Returned([@ EXCEPT !.ops = @ + 1, !.err["send"] = err,
                                   !.triggers = IF err # Nil THEN @ + 1 ELSE @,
                                   !.over = @ \/ err # Nil], "send", err)]
    /\ UNCHANGED <<heap, origMd, call, cspan, serverVars>>

ClientSendMsg(c, err) == ClientMsgCall(c, "send", "SendMsg", err)

ClientRecvMsg(c, err) == ClientMsgCall(c, "recv", "RecvMsg", err)

\* the error that finished the span is not returned
ClientMsgFinishReturn_Swallow(c, t) ==
    /\ cw[c].tpc[t] = "inFinish"
    /\ cw[c].op[t] \in {"SendMsg", "RecvMsg"}
    /\ cspan' = [cspan EXCEPT ![c] = FinishEffect(@)]
    /\ cw' = [cw EXCEPT ![c] = Returned(@, t, Nil)]
    /\ UNCHANGED <<heap, origMd, call, serverVars>>

\* s.span.Finish() completes; return err
ClientMsgFinishReturn(c, t) ==
    /\ cw[c].tpc[t] = "inFinish"
    /\ cw[c].op[t] \in {"SendMsg", "RecvMsg"}
    /\ cspan' = [cspan EXCEPT ![c] = FinishEffect(@)]
    /\ cw' = [cw EXCEPT ![c] = Returned(@, t, cw[c].err[t])]
    /\ UNCHANGED <<heap, origMd, call, serverVars>>

\* CloseSend only forwards
ClientCloseSendBegin_NoFinish(c) ==
    /\ CanStart(c, "send")
    /\ cw' = [cw EXCEPT ![c].ops = @ + 1,
                        ![c].op["send"] = "CloseSend",
                        ![c].triggers = @ + 1,
                        ![c].tpc["send"] = "forward"]
    /\ UNCHANGED <<heap, origMd, call, cspan, serverVars>>

\* CloseSend: if s.span != nil { s.span.Finish() -- being called }  (grpc.go 103-105)
ClientCloseSendBegin(c) ==
    /\ CanStart(c, "send")
    /\ cw' = [cw EXCEPT ![c].ops = @ + 1,
                        ![c].op["send"] = "CloseSend",
                        ![c].triggers = @ + 1,
                        ![c].tpc["send"] = IF ~cspan[c].isNil THEN "inFinish" ELSE "forward"]
    /\ cspan' = [cspan EXCEPT ![c] = FinishEnter(@)]
    /\ UNCHANGED <<heap, origMd, call, serverVars>>

\* CloseSend: s.span.Finish() completes                       (grpc.go 104)
ClientCloseSendFinished(c) ==
    /\ cw[c].tpc["send"] = "inFinish"
    /\ cw[c].op["send"] = "CloseSend"
    /\ cspan' = [cspan EXCEPT ![c] = FinishEffect(@)]
    /\ cw' = [cw EXCEPT ![c].tpc["send"] = "forward"]
    /\ UNCHANGED <<heap, origMd, call, serverVars>>

\* CloseSend: return s.stream.CloseSend()                     (grpc.go 106)
ClientCloseSendForward(c, err) ==
    /\ cw[c].tpc["send"] = "forward"
    /\ cw[c].op["send"] = "CloseSend"
    /\ cw' = [cw EXCEPT ![c] =
                Returned([@ EXCEPT !.err["send"] = err, !.halfClosed = TRUE],
                         "send", err)]
    /\ UNCHANGED <<heap, origMd, call, cspan, serverVars>>

\* a failed Header finishes the span
ClientHeaderCall_Finishes(c, err) ==
    /\ CanStart(c, "recv")
    /\ cw' = [cw EXCEPT ![c] =
                Returned([@ EXCEPT !.ops = @ + 1, !.err["recv"] = err,
                                   !.over = @ \/ err # Nil], "recv", err)]
    /\ cspan' = [cspan EXCEPT ![c] = IF err # Nil THEN Finish(@) ELSE @]
    /\ UNCHANGED <<heap, origMd, call, serverVars>>

\* Header: return s.stream.Header(); a failed Header ends the stream (grpc.go 94-96)
ClientHeaderCall(c, err) ==
    /\ CanStart(c, "recv")
    /\ cw' = [cw EXCEPT ![c] =
                Returned([@ EXCEPT !.ops = @ + 1, !.err["recv"] = err,
                                   !.over = @ \/ err # Nil], "recv", err)]
    /\ UNCHANGED <<heap, origMd, call, cspan, serverVars>>

\* Trailer: return s.stream.Trailer()                      (grpc.go 98-100)
ClientTrailerCall(c) ==
    /\ CanStart(c, "recv")
    /\ cw' = [cw EXCEPT ![c].ops = @ + 1]
    /\ UNCHANGED <<heap, origMd, call, cspan, serverVars>>

\* Context: return s.stream.Context()                    (grpc.go 109-111)
ClientContextCall(c) ==
    /\ CanStart(c, "recv")
    /\ cw' = [cw EXCEPT ![c].ops = @ + 1, ![c].ctxSeen = @ \cup {"stream"}]
    /\ UNCHANGED <<heap, origMd, call, cspan, serverVars>>

\* the caller cancels the call's context and drops the wrapper: the end of the
\* wrapper's life, which no method of the wrapper observes
ClientDiscard(c) ==
    /\ cw[c].made
    /\ ~cw[c].discarded
    /\ \A t \in Threads : cw[c].tpc[t] = "idle"
    /\ cw' = [cw EXCEPT ![c].discarded = TRUE, ![c].over = TRUE]
    /\ UNCHANGED <<heap, origMd, call, cspan, serverVars>>

\* a step of a client interceptor on call c
InterceptorStep(c) ==
    \/ \E kind \in {"unary", "stream"}, id \in NewSpanIDs : ClientNewChild(c, kind, id)
    \/ ClientCopyMD(c)
    \/ ClientSetMD(c)
    \/ \E err \in CallErrors \cup {Nil} : UnaryInvoke(c, err)
    \/ UnaryDeferFinish(c)
    \/ UnaryReturn(c)
    \/ \E err \in CallErrors \cup {Nil} : StreamEstablish(c, err)
    \/ StreamFailFinish(c)
    \/ StreamFailReturn(c)
    \/ StreamReturnWrapper(c)

\* a step of the caller's use of the stream wrapper of call c
WrapperStep(c) ==
    \/ \E err \in CallErrors \cup {Nil} : ClientSendMsg(c, err)
    \/ \E err \in RecvErrors \cup {Nil} : ClientRecvMsg(c, err)
    \/ \E t \in Threads : ClientMsgFinishReturn(c, t)
    \/ ClientCloseSendBegin(c)
    \/ ClientCloseSendFinished(c)
    \/ \E err \in CallErrors \cup {Nil} : ClientCloseSendForward(c, err)
    \/ \E err \in CallErrors \cup {Nil} : ClientHeaderCall(c, err)
    \/ ClientTrailerCall(c)
    \/ ClientContextCall(c)
    \/ ClientDiscard(c)

\* concurrent calls through the interceptors, sharing the caller's metadata
NextShared == \E c \in Calls : InterceptorStep(c)

SpecShared == InitShared /\ [][NextShared]_vars

\* one call through an interceptor and, for a stream, the life of its wrapper
NextClient == InterceptorStep(FirstCall) \/ WrapperStep(FirstCall)

SpecClient == InitClient /\ [][NextClient]_vars

\* ------------------------------------------------------- server side
\* a call arrives at a server interceptor with incoming metadata md
InitServer ==
    /\ heap = [a \in Addrs |-> EmptyMD]
    /\ origMd = EmptyMD
    /\ call = [c \in Calls |-> [InitCall(NilSpan, NoAddr) EXCEPT !.pc = "off"]]
    /\ cspan = [c \in Calls |-> NilSpan]
    /\ cw = [c \in Calls |-> NoWrapper]
    /\ \E md \in IncomingBags : srv = InitSrv(md)
    /\ sspan = NilSpan
    /\ sw = NoWrapper

\* if header, ok := md[grpcMetadataKey]; ok
HasTraceHeader(md) == grpcMetadataKey \in DOMAIN md

\* the header is read without the ok test: a span is made for every call
ServerBegin_NoOkCheck(kind) ==
    /\ srv.pc = "idle"
    /\ LET ok == HasTraceHeader(srv.md) IN
       /\ srv' = [srv EXCEPT !.kind = kind, !.traced = TRUE, !.pc = "handler"]
       /\ sspan' = SpanFromHeader(IF ok THEN JoinStrings(srv.md[grpcMetadataKey])
                                  ELSE <<>>)
       /\ sw' = IF kind = "stream"
                THEN [sw EXCEPT !.made = TRUE, !.context = "derived"]
                ELSE sw
    /\ UNCHANGED clientVars

\* a header that does not decode makes the interceptor return an error
ServerBegin_RejectBad(kind) ==
    /\ srv.pc = "idle"
    /\ LET ok  == HasTraceHeader(srv.md)
           bad == ok /\ ~traceInfoFromHeader(JoinStrings(srv.md[grpcMetadataKey])).ok
       IN
       /\ srv' = [srv EXCEPT !.kind = kind, !.traced = ok /\ ~bad,
                             !.err = IF bad THEN "unavailable" ELSE Nil,
                             !.pc = IF bad THEN "ret" ELSE "handler"]
       /\ sspan' = IF ok /\ ~bad THEN SpanFromHeader(JoinStrings(srv.md[grpcMetadataKey]))
                   ELSE NilSpan
       /\ sw' = IF ok /\ ~bad /\ kind = "stream"
                THEN [sw EXCEPT !.made = TRUE, !.context = "derived"]
                ELSE sw
    /\ UNCHANGED clientVars

\* span.Finish() is called at once instead of being deferred
ServerBegin_FinishNow(kind) ==
    /\ srv.pc = "idle"
    /\ LET ok == HasTraceHeader(srv.md) IN
       /\ srv' = [srv EXCEPT !.kind = kind, !.traced = ok, !.pc = "handler"]
       /\ sspan' = IF ok THEN Finish(SpanFromHeader(JoinStrings(srv.md[grpcMetadataKey])))
                   ELSE NilSpan
       /\ sw' = IF ok /\ kind = "stream"
                THEN [sw EXCEPT !.made = TRUE, !.context = "derived"]
                ELSE sw
    /\ UNCHANGED clientVars

\* md, _ := metadata.FromIncomingContext(ctx)
\* if header, ok := md[grpcMetadataKey]; ok {
\*     span := tc.SpanFromHeader("", strings.Join(header, "")); defer ...
\*     ctx = NewContext(ctx, span)  /  ss = &ServerStreamWrapper{...} }
\*                                          (grpc.go 72-77, 200-211)
ServerBegin(kind) ==
    /\ srv.pc = "idle"
    /\ LET ok == HasTraceHeader(srv.md) IN
       /\ srv' = [srv EXCEPT !.kind = kind, !.traced = ok, !.pc = "handler"]
       /\ sspan' = IF ok THEN SpanFromHeader(JoinStrings(srv.md[grpcMetadataKey]))
                   ELSE NilSpan
       /\ sw' = IF ok /\ kind = "stream"
                THEN [sw EXCEPT !.made = TRUE, !.context = "derived"]
                ELSE sw
    /\ UNCHANGED clientVars

\* handler(ctx, req) / handler(srv, ss) is entered: it finds the span in its
\* context, and as its stream the wrapper or the original stream
HandlerEnter ==
    /\ srv.pc = "handler"
    /\ srv' = [srv EXCEPT !.handlerCalls = @ + 1,
                          !.handlerSpan = sspan,
                          !.handlerWrapped = sw.made,
                          !.pc = "inHandler"]
    /\ UNCHANGED <<sspan, sw, clientVars>>

\* the handler returns err; a stream handler has then left the stream alone
HandlerReturn(err) ==
    /\ srv.pc = "inHandler"
    /\ \A t \in Threads : sw.tpc[t] = "idle"
    /\ srv' = [srv EXCEPT !.err = err, !.pc = IF srv.traced THEN "defer" ELSE "ret"]
    /\ UNCHANGED <<sspan, sw, clientVars>>

\* the interceptor forgets the deferred finish
ServerDeferFinish_Skip ==
    /\ srv.pc = "defer"
    /\ srv' = [srv EXCEPT !.pc = "ret"]
    /\ UNCHANGED <<sspan, sw, clientVars>>

\* defer span.Finish()                          (grpc.go 75, 205-208)
ServerDeferFinish ==
    /\ srv.pc = "defer"
    /\ sspan' = Finish(sspan)
    /\ srv' = [srv EXCEPT !.pc = "ret"]
    /\ UNCHANGED <<sw, clientVars>>

\* return handler(...)
ServerReturn ==
    /\ srv.pc = "ret"
    /\ srv' = [srv EXCEPT !.ret = srv.err, !.pc = "done"]
    /\ UNCHANGED <<sspan, sw, clientVars>>

\* ------------------------------------------------- ServerStreamWrapper
\* the stream handler may start an operation of the wrapper on its thread t
HandlerCanStart(t) ==
    /\ srv.pc = "inHandler"
    /\ sw.made
    /\ sw.tpc[t] = "idle"
    /\ sw.ops < MaxOps

\* SendMsg / RecvMsg: err := s.stream.XxxMsg(m);
\* if err != nil && s.span != nil { s.span.Finish() -- being called }
\* else return err                                   (grpc.go 180-196)
ServerMsgCall(t, name, err) ==
    /\ HandlerCanStart(t)
    /\ LET finish == err # Nil /\ ~sspan.isNil
           w == [sw EXCEPT !.ops = @ + 1,
                           !.op[t] = name,
                           !.err[t] = err,
                           !.triggers = IF err # Nil THEN @ + 1 ELSE @,
                           !.over = @ \/ err # Nil,
                           !.afterFinish = @ \/ sspan.finished,
                           !.eof = @ \/ err = "EOF",
                           !.tpc[t] = "inFinish"]
       IN
       /\ sw' = IF finish THEN w ELSE Returned(w, t, err)
       /\ sspan' = IF finish THEN FinishEnter(sspan) ELSE sspan
    /\ UNCHANGED <<srv, clientVars>>

ServerSendMsg(err) == ServerMsgCall("send", "SendMsg", err)

ServerRecvMsg(err) == ServerMsgCall("recv", "RecvMsg", err)

\* s.span.Finish() completes; return err
ServerMsgFinishReturn(t) ==
    /\ sw.tpc[t] = "inFinish"
    /\ sspan' = FinishEffect(sspan)
    /\ sw' = Returned(sw, t, sw.err[t])
    /\ UNCHANGED <<srv, clientVars>>

\* SetHeader / SendHeader: return s.stream.XxxHeader(md)   (grpc.go 164-170)
ServerHeaderOp(err) ==
    /\ HandlerCanStart("send")
    /\ sw' = Returned([sw EXCEPT !.ops = @ + 1, !.err["send"] = err], "send", err)
    /\ UNCHANGED <<srv, sspan, clientVars>>

ServerSetHeader(err) == ServerHeaderOp(err)

ServerSendHeader(err) == ServerHeaderOp(err)

\* SetTrailer: s.stream.SetTrailer(md)                    (grpc.go 172-174)
ServerSetTrailer ==
    /\ HandlerCanStart("send")
    /\ sw' = [sw EXCEPT !.ops = @ + 1]
    /\ UNCHANGED <<srv, sspan, clientVars>>

\* Context() hands out the stream's own context
ServerContextCall_Forward ==
    /\ HandlerCanStart("recv")
    /\ sw' = [sw EXCEPT !.ops = @ + 1, !.ctxSeen = @ \cup {"original"}]
    /\ UNCHANGED <<srv, sspan, clientVars>>

\* Context: return s.context                              (grpc.go 176-178)
ServerContextCall ==
    /\ HandlerCanStart("recv")
    /\ sw' = [sw EXCEPT !.ops = @ + 1, !.ctxSeen = @ \cup {sw.context}]
    /\ UNCHANGED <<srv, sspan, clientVars>>

\* with no trace header the handler has the original stream, and its calls
\* go to that stream                                      (grpc.go 212)
ServerRawCall ==
    /\ srv.pc = "inHandler"
    /\ srv.kind = "stream"
    /\ ~sw.made
    /\ sw.ops < MaxOps
    /\ sw' = [sw EXCEPT !.ops = @ + 1]
    /\ UNCHANGED <<srv, sspan, clientVars>>

NextServer ==
    \/ \E kind \in {"unary", "stream"} : ServerBegin(kind)
    \/ HandlerEnter
    \/ \E err \in CallErrors \cup {Nil} : HandlerReturn(err)
    \/ ServerDeferFinish
    \/ ServerReturn
    \/ \E err \in CallErrors \cup {Nil} : ServerSendMsg(err)
    \/ \E err \in RecvErrors \cup {Nil} : ServerRecvMsg(err)
    \/ \E t \in Threads : ServerMsgFinishReturn(t)
    \/ \E err \in CallErrors \cup {Nil} : ServerSetHeader(err)
    \/ \E err \in CallErrors \cup {Nil} : ServerSendHeader(err)
    \/ ServerSetTrailer
    \/ ServerContextCall
    \/ ServerRawCall

SpecServer == InitServer /\ [][NextServer]_vars

\* the package in use on either side of a call: as a client or as a server
Init == InitClient \/ InitServer

Next == NextClient \/ NextServer

Spec == Init /\ [][Next]_vars

\* ==================================================================
\* Properties
\* ==================================================================
ThreadsIdle(w) == \A t \in Threads : w.tpc[t] = "idle"

TracedStream == srv.kind = "stream" /\ srv.traced

SpannedWrapper(c) == cw[c].made /\ ~cspan[c].isNil

C3_FinishNeverOverlaps ==
    /\ \A c \in Calls :
          /\ cspan[c].reports <= 1
          /\ ~(cw[c].tpc["send"] = "inFinish" /\ cw[c].tpc["recv"] = "inFinish")
    /\ sspan.reports <= 1
    /\ ~(sw.tpc["send"] = "inFinish" /\ sw.tpc["recv"] = "inFinish")

SpannedUnary(c) == call[c].kind = "unary" /\ ~call[c].ambient.isNil

\* C4: on a unary client call with an ambient span, Finish is not called before
\* the invoker has returned, and has been called exactly once (and the span
\* reported once) when the interceptor is about to return and after.
C4_UnaryFinishOnceAfterInvoke ==
    \A c \in Calls :
        SpannedUnary(c) =>
            /\ ~cspan[c].isNil
            /\ call[c].pc \in {"copy", "set", "call", "defer"}
                  => cspan[c].finishCalls = 0
            /\ cspan[c].finishCalls > 0 => call[c].invoked = 1
            /\ call[c].pc \in {"ret", "done"}
                  => (cspan[c].finishCalls = 1 /\ cspan[c].reports = 1)

\* the invoker failed and the interceptor has returned
C4_Witness ==
    \E c \in Calls :
        /\ SpannedUnary(c)
        /\ call[c].pc = "done"
        /\ call[c].err # Nil
        /\ cspan[c].finishCalls = 1

\* C5: a client stream wrapper's span is finished no later than the end of the
\* wrapper's life: once the stream is over or the wrapper dropped, and no call
\* is running, the span is finished.
C5_SpanFinishedByEndOfStream ==
    \A c \in Calls :
        (SpannedWrapper(c) /\ cw[c].over /\ ThreadsIdle(cw[c])) => cspan[c].finished

EstablishFailed(c) ==
    call[c].kind = "stream" /\ call[c].err # Nil /\ ~call[c].ambient.isNil

\* C6: when the streamer fails, the streaming client interceptor calls Finish
\* on the derived span exactly once before it returns, makes no wrapper, and
\* returns a nil stream with the streamer's error.
C6_EstablishFailureFinishes ==
    \A c \in Calls :
        EstablishFailed(c) =>
            /\ ~cw[c].made
            /\ call[c].pc = "failed" => cspan[c].finishCalls = 0
            /\ call[c].pc \in {"ret", "done"}
                  => (cspan[c].finishCalls = 1 /\ cspan[c].reports = 1)
            /\ call[c].pc = "done"
                  => (call[c].stream = "nil" /\ call[c].ret = call[c].err)

C6_Witness ==
    \E c \in Calls :
        /\ EstablishFailed(c)
        /\ call[c].pc = "done"
        /\ cspan[c].finishCalls = 1
        /\ call[c].ret \in CallErrors

\* the header a call made from ambient span s must carry
HeaderOf(s) == spanHeader(s.traceID, s.spanID, s.options)

\* C7: the caller's metadata bag is never changed by an interceptor, and what
\* each traced call sends is that bag's entries with, under the trace key,
\* the call's own header alone, also when concurrent calls share the bag.
C7_CallerBagUntouched ==
    /\ heap[BaseAddr] = origMd
    /\ \A c \in Calls :
          (call[c].invoked = 1 /\ ~call[c].ambient.isNil) =>
              /\ call[c].sent.has
              /\ DOMAIN call[c].sent.md = DOMAIN origMd \cup {grpcMetadataKey}
              /\ call[c].sent.md[grpcMetadataKey] = <<HeaderOf(call[c].ambient)>>
              /\ \A k \in DOMAIN origMd \ {grpcMetadataKey} :
                    call[c].sent.md[k] = origMd[k]

\* two calls from different ambient spans share a bag that already holds the
\* trace key; each has sent its own header
C7_Witness ==
    \E c, d \in Calls :
        /\ c # d
        /\ call[c].invoked = 1 /\ call[d].invoked = 1
        /\ call[c].kind = "unary" /\ call[d].kind = "stream"
        /\ call[c].ctxMd # NoAddr
        /\ grpcMetadataKey \in DOMAIN origMd
        /\ ~call[c].ambient.isNil /\ ~call[d].ambient.isNil
        /\ call[c].sent.md[grpcMetadataKey] # call[d].sent.md[grpcMetadataKey]

\* C8: on a unary client call with ambient span S, the bag the invoker gets
\* holds exactly one value under the trace key, and that value decodes to a
\* span id equal to S's span id.
C8_OneHeaderWithAmbientID ==
    \A c \in Calls :
        (SpannedUnary(c) /\ call[c].invoked = 1) =>
            /\ call[c].sent.has
            /\ grpcMetadataKey \in DOMAIN call[c].sent.md
            /\ Len(call[c].sent.md[grpcMetadataKey]) = 1
            /\ LET info == traceInfoFromHeader(call[c].sent.md[grpcMetadataKey][1]) IN
                  /\ info.ok
                  /\ info.spanID = call[c].ambient.spanID

\* the caller's bag held two values under the key; the invoker got one
C8_Witness ==
    \E c \in Calls :
        /\ SpannedUnary(c)
        /\ call[c].invoked = 1
        /\ grpcMetadataKey \in DOMAIN origMd
        /\ Len(origMd[grpcMetadataKey]) = 2
        /\ Len(call[c].sent.md[grpcMetadataKey]) = 1
        /\ call[c].ambient.spanID = 42

UnspannedUnary(c) == call[c].kind = "unary" /\ call[c].ambient.isNil

\* C9: with no ambient span the unary client interceptor is a pass-through:
\* no span is made or finished, the caller's context (its bag, or none) is what
\* the invoker gets, the invoker is called once and its result returned.
C9_UnaryPassThrough ==
    \A c \in Calls :
        UnspannedUnary(c) =>
            /\ cspan[c].isNil
            /\ call[c].ctxMd \in {BaseAddr, NoAddr}
            /\ heap[BaseAddr] = origMd
            /\ call[c].invoked <= 1
            /\ call[c].invoked = 1 =>
                  /\ call[c].sent.has = (call[c].ctxMd = BaseAddr)
                  /\ call[c].sent.md = origMd
            /\ call[c].pc = "done" =>
                  (call[c].invoked = 1 /\ call[c].ret = call[c].err)

\* an untraced call whose bag has a stale trace header went through
C9_Witness ==
    \E c \in Calls :
        /\ UnspannedUnary(c)
        /\ call[c].pc = "done"
        /\ call[c].sent.has
        /\ grpcMetadataKey \in DOMAIN call[c].sent.md
        /\ call[c].ret \in CallErrors

TracedUnary == srv.kind = "unary" /\ srv.traced

\* C10: on a unary server call with the trace header, the handler is called
\* once with the reconstructed span in its context, Finish is not called until
\* the handler has returned, and has been called exactly once when the
\* interceptor returns, whatever the handler's result.
C10_ServerUnaryFinishAfterHandler ==
    TracedUnary =>
        /\ ~sspan.isNil
        /\ srv.handlerCalls <= 1
        /\ srv.pc \in {"handler", "inHandler", "defer"} => sspan.finishCalls = 0
        /\ srv.pc \in {"inHandler", "defer", "ret", "done"} =>
              /\ srv.handlerCalls = 1
              /\ ~srv.handlerSpan.isNil
              /\ srv.handlerSpan.spanID = sspan.spanID
              /\ srv.handlerSpan.traceID = sspan.traceID
              /\ ~srv.handlerSpan.finished
        /\ srv.pc \in {"ret", "done"} =>
              (sspan.finishCalls = 1 /\ sspan.reports = 1)

\* the handler failed on a call with the example header, parent span id 42
C10_Witness ==
    /\ TracedUnary
    /\ srv.pc = "done"
    /\ srv.ret \in CallErrors
    /\ srv.handlerSpan.parentSpanID = 42
    /\ sspan.finishCalls = 1

\* C11: with no trace-header key in the incoming metadata both server
\* interceptors pass through: no span is made, Finish is never called, the
\* unary handler finds no span in its context, the stream handler is given the
\* original stream, and the handler is called once.
C11_ServerPassThrough ==
    ~HasTraceHeader(srv.md) =>
        /\ sspan.isNil
        /\ sspan.finishCalls = 0
        /\ ~srv.traced
        /\ ~sw.made
        /\ srv.handlerCalls <= 1
        /\ srv.handlerCalls = 1 => (srv.handlerSpan.isNil /\ ~srv.handlerWrapped)
        /\ srv.pc = "done" => srv.handlerCalls = 1

\* a stream handler used the original stream and returned; the metadata had
\* other keys only
C11_Witness ==
    /\ OtherKey \in DOMAIN srv.md
    /\ ~HasTraceHeader(srv.md)
    /\ srv.kind = "stream"
    /\ srv.pc = "done"
    /\ sw.ops >= 2
    /\ ~srv.handlerWrapped

\* C12: what the wrapped operation returned is what the caller gets: from the
\* unary invoker, the streamer, the unary and stream handlers, and the
\* underlying SendMsg, RecvMsg, CloseSend, with or without a span, finished
\* or not.
C12_ResultsUnchanged ==
    /\ \A c \in Calls :
          /\ call[c].pc = "done" => call[c].ret = call[c].err
          /\ (call[c].pc = "done" /\ call[c].kind = "stream") =>
                (call[c].stream = "wrapper" <=> call[c].err = Nil)
          /\ ~cw[c].changed
    /\ srv.pc = "done" => srv.ret = srv.err
    /\ ~sw.changed

\* CloseSend and a failed call, on a span finished before the second of them,
\* have both returned
C12_Witness ==
    \E c \in Calls :
        /\ SpannedWrapper(c)
        /\ cw[c].halfClosed
        /\ cw[c].triggers >= 2
        /\ cw[c].afterFinish
        /\ ThreadsIdle(cw[c])
        /\ ~cw[c].changed

\* C13: on a traced server-streaming call no SendMsg or RecvMsg reaches the
\* underlying stream after the span has been finished; in particular a RecvMsg
\* reporting the end of the client's messages, with no other error, leaves the
\* span unfinished while the handler runs.
C13_SpanOpenAcrossMessages ==
    TracedStream =>
        /\ ~sw.afterFinish
        /\ (sw.eof /\ sw.triggers = 1 /\ srv.pc = "inHandler") => ~sspan.finished

\* C14: the header a client interceptor sends carries the child span's own
\* span id, not the ambient span's, with the ambient trace id and options.
C14_HeaderCarriesChildID ==
    \A c \in Calls :
        (call[c].invoked = 1 /\ ~call[c].ambient.isNil) =>
            LET info == traceInfoFromHeader(call[c].sent.md[grpcMetadataKey][1]) IN
                /\ info.ok
                /\ info.spanID = cspan[c].spanID
                /\ info.spanID # call[c].ambient.spanID
                /\ info.traceID = call[c].ambient.traceID
                /\ info.options = call[c].ambient.options

\* C15: a client stream wrapper's span is finished only by a trigger: Finish
\* has been called once per CloseSend, failed SendMsg and failed RecvMsg and
\* for nothing else (not for a successful SendMsg or RecvMsg, nor for Header,
\* Trailer or Context), and once a trigger's call has returned the span is
\* finished.
C15_FinishedOnlyByTrigger ==
    \A c \in Calls :
        SpannedWrapper(c) =>
            /\ cspan[c].finishCalls = cw[c].triggers
            /\ cw[c].triggers = 0 => ~cspan[c].finished
            /\ (cw[c].triggers >= 1 /\ ThreadsIdle(cw[c])) => cspan[c].finished

\* three calls that are no trigger, Context among them, left the span open;
\* the one trigger then finished it
C15_Witness ==
    \E c \in Calls :
        /\ SpannedWrapper(c)
        /\ cw[c].ops = 4
        /\ cw[c].ctxSeen # {}
        /\ cw[c].triggers = 1
        /\ ~cw[c].afterFinish
        /\ cspan[c].finished

\* C16: on a unary client call with a child span, once the invoker has returned
\* the span's labels are the label "error" with the error's message if the
\* invoker failed and none if it succeeded, and the label is there before
\* Finish is called.
C16_ErrorLabelBeforeFinish ==
    \A c \in Calls :
        SpannedUnary(c) =>
            /\ call[c].pc \in {"copy", "set", "call"} => cspan[c].labels = {}
            /\ call[c].pc \in {"defer", "ret", "done"} =>
                  cspan[c].labels =
                      IF call[c].err # Nil THEN {<<"error", call[c].err>>} ELSE {}
            /\ call[c].pc = "defer" => cspan[c].finishCalls = 0

\* the invoker failed; the label is set and Finish not yet called
C16_Witness ==
    \E c \in Calls :
        /\ SpannedUnary(c)
        /\ call[c].pc = "defer"
        /\ <<"error", "unavailable">> \in cspan[c].labels
        /\ ~cspan[c].finished

\* C17: whatever the incoming trace header holds, a server interceptor calls
\* the handler exactly once and returns the handler's result.
C17_HeaderNeverAbortsCall ==
    /\ srv.handlerCalls <= 1
    /\ srv.pc \in {"inHandler", "defer", "ret", "done"} => srv.handlerCalls = 1
    /\ srv.pc = "done" => srv.ret = srv.err

\* a call whose header does not decode went through a stream handler that
\* returned nil
C17_Witness ==
    /\ HasTraceHeader(srv.md)
    /\ ~traceInfoFromHeader(JoinStrings(srv.md[grpcMetadataKey])).ok
    /\ srv.md[grpcMetadataKey] # <<>>
    /\ srv.kind = "stream"
    /\ srv.pc = "done"
    /\ srv.handlerCalls = 1
    /\ srv.ret = Nil

\* C18: on a traced server-streaming call Context() always returns the derived
\* context made with the span, and SetHeader, SendHeader and SetTrailer never
\* call Finish: Finish is called for failed SendMsg/RecvMsg calls and for the
\* interceptor's return only.
C18_ContextFixedHeadersForwarded ==
    TracedStream =>
        /\ sw.made
        /\ sw.context = "derived"
        /\ sw.ctxSeen \subseteq {"derived"}
        /\ ~srv.handlerSpan.isNil \/ srv.handlerCalls = 0
        /\ sspan.finishCalls =
              sw.triggers + (IF srv.pc \in {"ret", "done"} THEN 1 ELSE 0)
        /\ ~sw.changed

\* Context() was called in a handler that made four calls, one failed
C18_Witness ==
    /\ TracedStream
    /\ srv.pc = "inHandler"
    /\ sw.ctxSeen = {"derived"}
    /\ sw.ops = 4
    /\ sw.triggers = 1
    /\ sspan.finished

\* C19: on a client stream wrapper with a span, CloseSend has finished the
\* span before it calls the underlying CloseSend, and the span is finished once
\* CloseSend has returned, whatever the underlying CloseSend returned.
C19_CloseSendFinishesFirst ==
    \A c \in Calls :
        SpannedWrapper(c) =>
            /\ (cw[c].op["send"] = "CloseSend" /\ cw[c].tpc["send"] = "forward")
                  => cspan[c].finished
            /\ cw[c].halfClosed => cspan[c].finished

\* CloseSend returned and a message call made after it succeeded on the
\* finished span
C19_Witness ==
    \E c \in Calls :
        /\ SpannedWrapper(c)
        /\ cw[c].halfClosed
        /\ cw[c].ops = 2
        /\ cw[c].triggers = 1
        /\ cw[c].afterFinish
        /\ ThreadsIdle(cw[c])
        /\ cspan[c].finished

====
